---------------------------- MODULE Spec2Model ----------------------------
(***************************************************************************)
(* A model of the scalar fileio functions of sqlean                        *)
(* (src/src/fileio/scalar.c): readfile, writefile, mkdir, symlink, lsmode. *)
(*                                                                         *)
(* The program keeps no state of its own between calls: its state is the   *)
(* filesystem it acts on and the result it leaves in the sqlite3_context   *)
(* of the call.  The model is the POSIX build (the #else branches of the   *)
(* _WIN32 conditionals).                                                   *)
(*                                                                         *)
(* The filesystem is a tree under a scratch directory (the root, <<>>).    *)
(* A path is the sequence of its components: <<"a","b">> is /a/b.  The     *)
(* calling process owns every entry and is not the superuser, so the owner *)
(* permission bits decide access.  System calls the code checks and that   *)
(* cannot be made to fail by the tree alone (a short fwrite or fread, a    *)
(* failed malloc, chmod or utimes) fail when the call's fault input says   *)
(* so.  fwrite's return value is the number of bytes that reach the file.  *)
(***************************************************************************)
EXTENDS Integers, Sequences, FiniteSets, TLC

VARIABLES
    fs,      \* the filesystem: path -> entry
    umask,   \* the process's file mode creation mask
    call,    \* the call that has just returned: arguments, result, what it did
    last,    \* what the host keeps of the call before: a writefile that returned
             \* a byte count, its path and data
    nCalls,  \* number of calls made so far
    thr      \* the calls of writefile in progress on the host's threads, each
             \* with its position; none while the host makes one call at a time

vars == <<fs, umask, call, last, nCalls, thr>>

(***************************************************************************)
(* Bounds of the model.                                                    *)
(***************************************************************************)
MaxDepth == 3      \* longest path, in components
MaxLen   == 1      \* longest content written, in bytes
MaxCalls == 2      \* calls in one behaviour

Names == {"a", "b"}
Bytes == {1, 2}

\* the tree of the model: the chain /a, /a/a, ... and the siblings /b and /a/b
Paths == {p \in UNION {[1..n -> Names] : n \in 1..MaxDepth} :
             /\ \A k \in 1..(Len(p) - 1) : p[k] = "a"
             /\ p[Len(p)] = "b" => Len(p) <= 2}
Blobs == UNION {[1..n -> Bytes] : n \in 0..MaxLen}

(***************************************************************************)
(* <sys/stat.h>: the file type bits of st_mode.                            *)
(***************************************************************************)
S_IFMT  == 61440   \* 0170000
S_IFLNK == 40960   \* 0120000
S_IFREG == 32768   \* 0100000
S_IFDIR == 16384   \* 0040000

\* mode & bit # 0, for bit a power of two; \div rounds down, as >> does on a
\* two's complement int
HasBit(mode, bit) == (mode \div bit) % 2 = 1
\* mode & 0777
Perm9(mode) == mode % 512
\* mode & 07777: what chmod(2) and mkdir(2) keep of their mode argument
Perm12(mode) == mode % 4096
\* mode & ~mask, on the nine permission bits
RECURSIVE ClearBits(_, _, _)
ClearBits(mode, mask, bit) ==
    IF bit > 256 THEN 0
    ELSE (IF HasBit(mode, bit) /\ ~HasBit(mask, bit) THEN bit ELSE 0)
         + ClearBits(mode, mask, 2 * bit)
AndNot(mode, mask) == ClearBits(mode, mask, 1)

\* mode & S_IFMT
TypeBits(mode) == ((mode \div 4096) % ((S_IFMT \div 4096) + 1)) * 4096
S_ISLNK(mode) == TypeBits(mode) = S_IFLNK
S_ISREG(mode) == TypeBits(mode) = S_IFREG
S_ISDIR(mode) == TypeBits(mode) = S_IFDIR

(***************************************************************************)
(* Filesystem entries.                                                     *)
(***************************************************************************)
\* "mtime = -1": no modification time given; an entry carries it while its
\* modification time is the system clock's, not one set by utimes()
MtimeUnset == -1

Entry(kind, perm, data, mtime, target) ==
    [kind |-> kind, perm |-> perm, data |-> data, mtime |-> mtime, target |-> target]
Absent      == Entry("none", 0, <<>>, MtimeUnset, "")
DirEntry(p) == Entry("dir", p, <<>>, MtimeUnset, "")
FileEntry(p, d, t) == Entry("file", p, d, t, "")
LinkEntry(t) == Entry("link", 511, <<>>, MtimeUnset, t)
RootEntry   == DirEntry(511)

EmptyFs == [p \in Paths |-> Absent]

Prefix(p, k) == SubSeq(p, 1, k)
Parent(p)    == Prefix(p, Len(p) - 1)
NodeAt(f, p) == IF p = <<>> THEN RootEntry ELSE f[p]
Exists(f, p) == NodeAt(f, p).kind # "none"
IsDir(f, p)  == NodeAt(f, p).kind = "dir"
IsFile(f, p) == NodeAt(f, p).kind = "file"

Min(S) == CHOOSE x \in S : \A y \in S : x <= y
\* the element of a set of one: The({e(x) : x \in {v}}) is e of the value of v
The(S) == CHOOSE x \in S : TRUE

OwnerR(n) == HasBit(n.perm, 256)
OwnerW(n) == HasBit(n.perm, 128)
OwnerX(n) == HasBit(n.perm, 64)

(***************************************************************************)
(* Path lookup: every proper ancestor of p must be a directory the process *)
(* may search.  A symbolic link of the model points into a directory that  *)
(* does not exist, so following one gives ENOENT.                          *)
(***************************************************************************)
AncErr(f, p) ==
    LET bad == {k \in 0..(Len(p) - 1) :
                   ~(IsDir(f, Prefix(p, k)) /\ OwnerX(NodeAt(f, Prefix(p, k))))}
    IN  IF bad = {} THEN "OK"
        ELSE LET n == NodeAt(f, Prefix(p, Min(bad)))
             IN  CASE n.kind = "none" -> "ENOENT"
                   [] n.kind = "link" -> "ENOENT"
                   [] n.kind = "file" -> "ENOTDIR"
                   [] OTHER           -> "EACCES"

(***************************************************************************)
(* The system calls the code makes, as functions of the filesystem.  Each  *)
(* gives a record: err is "OK" or the errno of the failure, fs the         *)
(* filesystem afterwards.                                                  *)
(***************************************************************************)
Sys(err, f) == [err |-> err, fs |-> f]

\* stat(2); mode is st_mode
stat(f, p) ==
    LET n == NodeAt(f, p)
    IN  IF AncErr(f, p) # "OK" THEN [err |-> AncErr(f, p), mode |-> 0]
        ELSE IF n.kind = "dir"  THEN [err |-> "OK", mode |-> S_IFDIR + n.perm]
        ELSE IF n.kind = "file" THEN [err |-> "OK", mode |-> S_IFREG + n.perm]
        ELSE [err |-> "ENOENT", mode |-> 0]

\* mkdir(2)
mkdir(f, p, mode, um) ==
    IF AncErr(f, p) # "OK" THEN Sys(AncErr(f, p), f)
    ELSE IF Exists(f, p) THEN Sys("EEXIST", f)
    ELSE IF ~OwnerW(NodeAt(f, Parent(p))) THEN Sys("EACCES", f)
    ELSE Sys("OK", [f EXCEPT ![p] = DirEntry(AndNot(Perm9(mode), um))])

\* chmod(2); fails with EPERM when the fault input says so
chmod(f, p, mode, fault) ==
    IF AncErr(f, p) # "OK" THEN Sys(AncErr(f, p), f)
    ELSE IF NodeAt(f, p).kind \notin {"dir", "file"} THEN Sys("ENOENT", f)
    ELSE IF fault.kind = "chmod" THEN Sys("EPERM", f)
    ELSE Sys("OK", [f EXCEPT ![p].perm = Perm12(mode)])

\* symlink(2)
symlink(f, target, p) ==
    IF AncErr(f, p) # "OK" THEN Sys(AncErr(f, p), f)
    ELSE IF Exists(f, p) THEN Sys("EEXIST", f)
    ELSE IF ~OwnerW(NodeAt(f, Parent(p))) THEN Sys("EACCES", f)
    ELSE Sys("OK", [f EXCEPT ![p] = LinkEntry(target)])

\* fopen(p, "wb"): creates or truncates
fopen_wb(f, p, um) ==
    LET n == NodeAt(f, p)
    IN  IF AncErr(f, p) # "OK" THEN Sys(AncErr(f, p), f)
        ELSE IF n.kind = "dir" THEN Sys("EISDIR", f)
        ELSE IF n.kind = "link" THEN Sys("ENOENT", f)
        ELSE IF n.kind = "file" THEN
            IF OwnerW(n) THEN Sys("OK", [f EXCEPT ![p] = FileEntry(n.perm, <<>>, MtimeUnset)])
            ELSE Sys("EACCES", f)
        ELSE IF ~OwnerW(NodeAt(f, Parent(p))) THEN Sys("EACCES", f)
        ELSE Sys("OK", [f EXCEPT ![p] = FileEntry(AndNot(438, um), <<>>, MtimeUnset)])

\* fopen(p, "rb"); a directory can be opened for reading
fopen_rb(f, p) ==
    LET n == NodeAt(f, p)
    IN  IF AncErr(f, p) # "OK" THEN AncErr(f, p)
        ELSE IF n.kind \in {"none", "link"} THEN "ENOENT"
        ELSE IF n.kind = "file" /\ ~OwnerR(n) THEN "EACCES"
        ELSE IF n.kind = "dir" /\ ~OwnerR(n) THEN "EACCES"
        ELSE "OK"

\* utimes(2) with times[1] = mtime; fails when the fault input says so
utimes(f, p, mtime, fault) ==
    IF AncErr(f, p) # "OK" THEN Sys(AncErr(f, p), f)
    ELSE IF NodeAt(f, p).kind \notin {"dir", "file"} THEN Sys("ENOENT", f)
    ELSE IF fault.kind = "utimes" THEN Sys(fault.errno, f)
    ELSE Sys("OK", [f EXCEPT ![p].mtime = mtime])

(***************************************************************************)
(* The result a call leaves in its sqlite3_context.  t is "null" (nothing  *)
(* set), "int", "blob", "text" or "error"; an error carries its code and,  *)
(* for sqlite3_result_error, the message and the name printed into it.     *)
(***************************************************************************)
Result(t, n, b, code, msg, arg) ==
    [t |-> t, n |-> n, b |-> b, code |-> code, msg |-> msg, arg |-> arg]
NullResult       == Result("null", 0, <<>>, "", "", <<>>)
IntResult(n)     == Result("int", n, <<>>, "", "", <<>>)
BlobResult(b)    == Result("blob", Len(b), b, "", "", <<>>)
TextResult(z)    == Result("text", Len(z), z, "", "", <<>>)
ErrorCode(code)  == Result("error", 0, <<>>, code, "", <<>>)
ErrorMsg(msg, a) == Result("error", 0, <<>>, "SQLITE_ERROR", msg, a)

(***************************************************************************)
(* The fault input of a call: which of the checked library calls fails.    *)
(* n is the count a short fwrite or fread returns, errno what a failing    *)
(* utimes sets; dirLen is what ftell reports for a directory stream.       *)
(***************************************************************************)
Fault(kind, n, errno) == [kind |-> kind, n |-> n, errno |-> errno]
NoFault == Fault("none", 0, "")

(***************************************************************************)
(* readFileContents                                                        *)
(***************************************************************************)
\* ftell at the end of the stream: the file's length; for a directory the
\* value is the platform's (dirLen)
StreamLen(f, zName, dirLen) ==
    IF IsFile(f, zName) THEN Len(NodeAt(f, zName).data) ELSE dirLen
\* fread's count: every byte of a file unless the read is cut short; a
\* directory stream gives none
ReadCount(f, zName, nIn, fault) ==
    IF ~IsFile(f, zName) THEN 0
    ELSE IF fault.kind = "fread" /\ fault.n < nIn THEN fault.n
    ELSE nIn

\* readFileContents with "nIn >= mxBlob" for "nIn > mxBlob"
readFileContents_limit(f, zName, mxBlob, fault, dirLen) ==
    LET nIn == StreamLen(f, zName, dirLen)
        got == ReadCount(f, zName, nIn, fault)
    IN  IF fopen_rb(f, zName) # "OK" THEN NullResult
        ELSE IF nIn >= mxBlob THEN ErrorCode("SQLITE_TOOBIG")
        ELSE IF fault.kind = "malloc" THEN ErrorCode("SQLITE_NOMEM")
        ELSE IF nIn = got THEN BlobResult(SubSeq(NodeAt(f, zName).data, 1, got))
        ELSE ErrorCode("SQLITE_IOERR")

\* readFileContents reporting a failed fopen as an I/O error
readFileContents_open(f, zName, mxBlob, fault, dirLen) ==
    LET nIn == StreamLen(f, zName, dirLen)
        got == ReadCount(f, zName, nIn, fault)
    IN  IF fopen_rb(f, zName) # "OK" THEN ErrorCode("SQLITE_IOERR")
        ELSE IF nIn > mxBlob THEN ErrorCode("SQLITE_TOOBIG")
        ELSE IF fault.kind = "malloc" THEN ErrorCode("SQLITE_NOMEM")
        ELSE IF nIn = got THEN BlobResult(SubSeq(NodeAt(f, zName).data, 1, got))
        ELSE ErrorCode("SQLITE_IOERR")

\* readFileContents without the test of fread's count
readFileContents_short(f, zName, mxBlob, fault, dirLen) ==
    LET nIn == StreamLen(f, zName, dirLen)
        got == ReadCount(f, zName, nIn, fault)
    IN  IF fopen_rb(f, zName) # "OK" THEN NullResult
        ELSE IF nIn > mxBlob THEN ErrorCode("SQLITE_TOOBIG")
        ELSE IF fault.kind = "malloc" THEN ErrorCode("SQLITE_NOMEM")
        ELSE BlobResult(SubSeq(NodeAt(f, zName).data, 1, got))

readFileContents(f, zName, mxBlob, fault, dirLen) ==
    LET nIn == StreamLen(f, zName, dirLen)
        got == ReadCount(f, zName, nIn, fault)
    IN  IF fopen_rb(f, zName) # "OK" THEN NullResult
        ELSE IF nIn > mxBlob THEN ErrorCode("SQLITE_TOOBIG")
        ELSE IF fault.kind = "malloc" THEN ErrorCode("SQLITE_NOMEM")
        ELSE IF nIn = got THEN BlobResult(SubSeq(NodeAt(f, zName).data, 1, got))
        ELSE ErrorCode("SQLITE_IOERR")

(***************************************************************************)
(* fileStat, makeParentDirectory, makeDirectory, createSymlink             *)
(***************************************************************************)
fileStat(f, zPath) == stat(f, zPath)

\* the loop of makeParentDirectory from prefix k on: one round per '/' of
\* zFile after its first character
RECURSIVE ParentLoop(_, _, _, _, _)
ParentLoop(f, zFile, k, um, made) ==
    LET zCopy == Prefix(zFile, k)
        sStat == fileStat(f, zCopy)
        md    == mkdir(f, zCopy, 511, um)
    IN  IF k >= Len(zFile) THEN [rc |-> "SQLITE_OK", fs |-> f, made |-> made]
        ELSE IF sStat.err # "OK" THEN
            IF md.err # "OK" THEN [rc |-> "SQLITE_ERROR", fs |-> f, made |-> made]
            ELSE The({ParentLoop(g, zFile, k + 1, um, made \cup {zCopy}) : g \in {md.fs}})
        ELSE IF ~S_ISDIR(sStat.mode) THEN [rc |-> "SQLITE_ERROR", fs |-> f, made |-> made]
        ELSE ParentLoop(f, zFile, k + 1, um, made)

\* makeParentDirectory with its loop starting after the first component
makeParentDirectory_skip(f, zFile, um, fault) ==
    IF fault.kind = "malloc" THEN [rc |-> "SQLITE_NOMEM", fs |-> f, made |-> {}]
    ELSE ParentLoop(f, zFile, 2, um, {})

makeParentDirectory(f, zFile, um, fault) ==
    IF fault.kind = "malloc" THEN [rc |-> "SQLITE_NOMEM", fs |-> f, made |-> {}]
    ELSE ParentLoop(f, zFile, 1, um, {})

\* makeDirectory without the S_ISDIR test
makeDirectory_any(f, path, mode, um, fault) ==
    LET md    == mkdir(f, path, mode, um)
        sStat == fileStat(f, path)
        ch    == chmod(f, path, Perm9(mode), fault)
    IN  IF md.err = "OK" THEN [ret |-> 0, fs |-> md.fs]
        ELSE IF md.err # "EEXIST" \/ sStat.err # "OK" THEN [ret |-> 1, fs |-> f]
        ELSE IF Perm9(sStat.mode) = Perm9(mode) THEN [ret |-> 0, fs |-> f]
        ELSE IF ch.err # "OK" THEN [ret |-> 1, fs |-> f]
        ELSE [ret |-> 0, fs |-> ch.fs]

makeDirectory(f, path, mode, um, fault) ==
    LET md    == mkdir(f, path, mode, um)
        sStat == fileStat(f, path)
        ch    == chmod(f, path, Perm9(mode), fault)
    IN  IF md.err = "OK" THEN [ret |-> 0, fs |-> md.fs]
        ELSE IF md.err # "EEXIST" \/ sStat.err # "OK" \/ ~S_ISDIR(sStat.mode)
            THEN [ret |-> 1, fs |-> f]
        ELSE IF Perm9(sStat.mode) = Perm9(mode) THEN [ret |-> 0, fs |-> f]
        ELSE IF ch.err # "OK" THEN [ret |-> 1, fs |-> f]
        ELSE [ret |-> 0, fs |-> ch.fs]

\* "int res = symlink(src, dst) < 0; if (res < 0) return 1; return 0;"
createSymlink(f, src, dstNull, dst) ==
    LET sl  == IF dstNull THEN Sys("EFAULT", f) ELSE symlink(f, src, dst)
        res == IF sl.err # "OK" THEN 1 ELSE 0
    IN  [ret |-> IF res < 0 THEN 1 ELSE 0, fs |-> sl.fs, err |-> sl.err]

(***************************************************************************)
(* writeFile.  z is sqlite3_value_blob(pData): zNull when the value is     *)
(* NULL or a blob of no bytes.  The record gives the return value, errno,  *)
(* the filesystem afterwards, whether sqlite3_result_int64 was called and  *)
(* with what, and the steps taken.                                         *)
(***************************************************************************)
\* a library call of writeFile or sqlite3_writefile and how it ended: "OK" or
\* the errno (for makeParentDirectory, its return code)
Step(name, err) == [name |-> name, err |-> err]

\* fwrite's return value
WriteCount(z, fault) ==
    IF fault.kind = "fwrite" /\ fault.n < Len(z) THEN fault.n ELSE Len(z)

\* writeFile without its chmod
writeFile_nochmod(out, zFile, zNull, z, mode, mtime, fault) ==
    LET n      == IF zNull THEN 0 ELSE WriteCount(z, fault)
        nWrite == IF zNull THEN 0 ELSE Len(z)
        f1     == IF zNull THEN out ELSE [out EXCEPT ![zFile].data = SubSeq(z, 1, n)]
        rc     == IF nWrite # n THEN 1 ELSE 0
        ut     == utimes(f1, zFile, mtime, fault)
        steps  == <<Step("fopen", "OK")>>
                  \o (IF zNull THEN <<>>
                      ELSE <<Step("fwrite", IF rc = 0 THEN "OK" ELSE fault.errno)>>)
    IN  IF rc # 0 THEN
            [ret |-> 2, errno |-> fault.errno, fs |-> f1,
             set |-> FALSE, nWrite |-> nWrite, steps |-> steps]
        ELSE IF mtime >= 0 /\ ut.err # "OK" THEN
            [ret |-> 1, errno |-> ut.err, fs |-> f1, set |-> TRUE, nWrite |-> nWrite,
             steps |-> Append(steps, Step("utimes", ut.err))]
        ELSE IF mtime >= 0 THEN
            [ret |-> 0, errno |-> "OK", fs |-> ut.fs, set |-> TRUE, nWrite |-> nWrite,
             steps |-> Append(steps, Step("utimes", "OK"))]
        ELSE
            [ret |-> 0, errno |-> "OK", fs |-> f1, set |-> TRUE, nWrite |-> nWrite,
             steps |-> steps]

\* from "z = sqlite3_value_blob(pData)" on; out is the opened stream's
\* filesystem
writeFile_opened(out, zFile, zNull, z, mode, mtime, fault) ==
    LET n      == IF zNull THEN 0 ELSE WriteCount(z, fault)
        nWrite == IF zNull THEN 0 ELSE Len(z)
        f1     == IF zNull THEN out ELSE [out EXCEPT ![zFile].data = SubSeq(z, 1, n)]
        rc1    == IF nWrite # n THEN 1 ELSE 0
        doCh   == rc1 = 0 /\ mode # 0
        ch     == chmod(f1, zFile, mode, fault)
        rc     == IF doCh /\ ch.err # "OK" THEN 1 ELSE rc1
        f2     == IF doCh THEN ch.fs ELSE f1
        ut     == utimes(f2, zFile, mtime, fault)
        steps  == <<Step("fopen", "OK")>>
                  \o (IF zNull THEN <<>>
                      ELSE <<Step("fwrite", IF rc1 = 0 THEN "OK" ELSE fault.errno)>>)
                  \o (IF doCh THEN <<Step("chmod", ch.err)>> ELSE <<>>)
    IN  IF rc # 0 THEN
            [ret |-> 2, errno |-> IF rc1 # 0 THEN fault.errno ELSE ch.err, fs |-> f2,
             set |-> FALSE, nWrite |-> nWrite, steps |-> steps]
        ELSE IF mtime >= 0 /\ ut.err # "OK" THEN
            [ret |-> 1, errno |-> ut.err, fs |-> f2, set |-> TRUE, nWrite |-> nWrite,
             steps |-> Append(steps, Step("utimes", ut.err))]
        ELSE IF mtime >= 0 THEN
            [ret |-> 0, errno |-> "OK", fs |-> ut.fs, set |-> TRUE, nWrite |-> nWrite,
             steps |-> Append(steps, Step("utimes", "OK"))]
        ELSE
            [ret |-> 0, errno |-> "OK", fs |-> f2, set |-> TRUE, nWrite |-> nWrite,
             steps |-> steps]

writeFile(f, zFile, zNull, z, mode, mtime, um, fault) ==
    LET out == fopen_wb(f, zFile, um)
    IN  IF out.err # "OK" THEN
            [ret |-> 1, errno |-> out.err, fs |-> f, set |-> FALSE, nWrite |-> 0,
             steps |-> <<Step("fopen", out.err)>>]
        ELSE The({writeFile_opened(g, zFile, zNull, z, mode, mtime, fault) : g \in {out.fs}})

(***************************************************************************)
(* The record of a call: argc and the arguments as given (a NULL argument  *)
(* has its ...Null flag set), the limit and the faults of the call, its    *)
(* result, the return value of the helper (res), the steps taken and the   *)
(* directories the call made.  after is the host's note of the call        *)
(* before, pre the entry at the path argument when the call began.         *)
(***************************************************************************)
NoArgs ==
    [argc |-> 0, pathNull |-> FALSE, path |-> <<>>, dataNull |-> FALSE, data |-> <<>>,
     perm |-> 0, mtime |-> MtimeUnset, src |-> "", srcNull |-> FALSE, mode |-> 0,
     mxBlob |-> 0, dirLen |-> 0, fault |-> NoFault]

Call(op, args, result, res, steps, made, after) ==
    [op |-> op, args |-> args, result |-> result, res |-> res, steps |-> steps,
     made |-> made, after |-> after,
     pre |-> IF args.path \in Paths THEN fs[args.path] ELSE Absent]

NoBrief  == [op |-> "none", argc |-> 0, path |-> <<>>, data |-> <<>>, n |-> 0]
Brief(c) == IF c.op = "writefile" /\ c.result.t = "int"
            THEN [op |-> "writefile", argc |-> c.args.argc, path |-> c.args.path,
                  data |-> c.args.data, n |-> c.result.n]
            ELSE NoBrief
NoCall   == Call("none", NoArgs, NullResult, 0, <<>>, {}, NoBrief)

(***************************************************************************)
(* The arguments the calls are made with.                                  *)
(***************************************************************************)
PermArgs   == {0, 128, 33152}          \* 0, 0200, 0100600
MkdirPerms == {320, 448, 488}          \* 0500, 0700, 0750
Targets    == {"/nowhere/t"}
Umasks     == {18}                     \* 022
Contents   == {[null |-> TRUE, z |-> <<>>]} \cup {[null |-> FALSE, z |-> b] : b \in Blobs}
OneByte    == [null |-> FALSE, z |-> <<1>>]

\* sqlite3_value_blob(): NULL for a NULL value and for a blob of no bytes
value_blob_null(null, z) == null \/ Len(z) = 0

WArgs(n, p, c, m, t, flt) ==
    [NoArgs EXCEPT !.argc = n, !.path = p, !.dataNull = c.null, !.data = c.z,
                   !.perm = m, !.mtime = t, !.fault = flt]

\* writefile(path, data), writefile(path, data, perm), writefile(path, data,
\* perm, mtime): every path; every content with two arguments
WriteArgs ==
    {WArgs(2, p, c, 0, MtimeUnset, NoFault) : p \in Paths, c \in Contents}
    \cup {WArgs(3, p, c, m, MtimeUnset, NoFault)
             : p \in Paths, c \in {OneByte}, m \in PermArgs}
    \cup {WArgs(4, p, OneByte, 420, t, NoFault) : p \in Paths, t \in {MtimeUnset, 7}}

\* a content of MaxLen bytes
FullBlob == [null |-> FALSE, z |-> [i \in 1..MaxLen |-> 1 + (i % 2)]]

\* the same with a library call failing: fwrite one byte short, chmod,
\* utimes, and the sqlite3_mprintf of makeParentDirectory
WriteArgsFault ==
    {WArgs(n, p, FullBlob, 420, MtimeUnset, Fault("fwrite", MaxLen - 1, "ENOSPC"))
        : n \in 2..4, p \in Paths}
    \cup {WArgs(n, p, OneByte, 420, MtimeUnset, Fault("chmod", 0, "EPERM"))
        : n \in 2..3, p \in Paths}
    \cup {WArgs(4, p, OneByte, 420, 7, Fault("utimes", 0, e))
        : p \in Paths, e \in {"EPERM", "ENOENT"}}
    \cup {WArgs(2, p, OneByte, 0, MtimeUnset, Fault("malloc", 0, "ENOMEM"))
        : p \in {q \in Paths : Len(q) > 1}}

(***************************************************************************)
(* sqlite3_writefile                                                       *)
(***************************************************************************)
\* the end of sqlite3_writefile with "argc > 3" for "argc > 2"
writefile_end_argc(a, first, retry, mk, again, second, after) ==
    LET res    == IF again THEN second.ret ELSE first.ret
        set    == IF again /\ second.set THEN IntResult(second.nWrite)
                  ELSE IF first.set THEN IntResult(first.nWrite)
                  ELSE NullResult
        result == IF a.argc > 3 /\ res # 0
                  THEN ErrorMsg("failed to write file: %s", a.path) ELSE set
        steps  == first.steps
                  \o (IF retry THEN <<Step("makeParentDirectory", mk.rc)>> ELSE <<>>)
                  \o (IF again THEN second.steps ELSE <<>>)
    IN  [fs |-> IF again THEN second.fs ELSE IF retry THEN mk.fs ELSE first.fs,
         call |-> Call("writefile", a, result, res, steps,
                       IF retry THEN mk.made ELSE {}, after)]

\* what the call leaves: the result is the last one set, unless the error
\* message replaces it
writefile_end(a, first, retry, mk, again, second, after) ==
    LET res    == IF again THEN second.ret ELSE first.ret
        set    == IF again /\ second.set THEN IntResult(second.nWrite)
                  ELSE IF first.set THEN IntResult(first.nWrite)
                  ELSE NullResult
        result == IF a.argc > 2 /\ res # 0
                  THEN ErrorMsg("failed to write file: %s", a.path) ELSE set
        steps  == first.steps
                  \o (IF retry THEN <<Step("makeParentDirectory", mk.rc)>> ELSE <<>>)
                  \o (IF again THEN second.steps ELSE <<>>)
    IN  [fs |-> IF again THEN second.fs ELSE IF retry THEN mk.fs ELSE first.fs,
         call |-> Call("writefile", a, result, res, steps,
                       IF retry THEN mk.made ELSE {}, after)]

\* "if (res == 1 && errno == ENOENT)"
writefile_retry(first) == first.ret = 1 /\ first.errno = "ENOENT"

\* the call from "int res = writeFile(...)" on
writefile_body(f, um, a, after) ==
    LET zNull  == value_blob_null(a.dataNull, a.data)
        perm   == IF a.argc >= 3 THEN a.perm ELSE 438
        mtime  == IF a.argc = 4 THEN a.mtime ELSE MtimeUnset
    IN  The({
          IF ~writefile_retry(first)
          THEN writefile_end(a, first, FALSE, first, FALSE, first, after)
          ELSE The({
            IF mk.rc # "SQLITE_OK"
            THEN writefile_end(a, first, TRUE, mk, FALSE, first, after)
            ELSE The({writefile_end(a, first, TRUE, mk, TRUE, second, after)
                      : second \in {writeFile(mk.fs, a.path, zNull, a.data, perm, mtime,
                                              um, a.fault)}})
            : mk \in {makeParentDirectory(first.fs, a.path, um, a.fault)}})
          : first \in {writeFile(f, a.path, zNull, a.data, perm, mtime, um, a.fault)}})

Idle == call.op = "none" /\ nCalls < MaxCalls

sqlite3_writefile ==
    /\ Idle
    /\ \E a \in WriteArgs \cup WriteArgsFault :
       \E r \in {writefile_body(fs, umask, a, last)} :
             /\ fs' = r.fs
             /\ call' = r.call
    /\ nCalls' = nCalls + 1
    /\ UNCHANGED <<umask, last, thr>>

\* argc < 2 || argc > 4
sqlite3_writefile_argc ==
    /\ Idle
    /\ \E n \in {1, 5} :
         call' = Call("writefile", [NoArgs EXCEPT !.argc = n],
                      ErrorMsg("wrong number of arguments to function writefile()", <<>>),
                      0, <<>>, {}, last)
    /\ nCalls' = nCalls + 1
    /\ UNCHANGED <<fs, umask, last, thr>>

\* zFile == 0
sqlite3_writefile_null ==
    /\ Idle
    /\ \E n \in 2..4 :
         call' = Call("writefile", [NoArgs EXCEPT !.argc = n, !.pathNull = TRUE],
                      NullResult, 0, <<>>, {}, last)
    /\ nCalls' = nCalls + 1
    /\ UNCHANGED <<fs, umask, last, thr>>

(***************************************************************************)
(* sqlite3_readfile                                                        *)
(***************************************************************************)
RArgs(p, mx, dl, flt) ==
    [NoArgs EXCEPT !.argc = 1, !.path = p, !.mxBlob = mx, !.dirLen = dl, !.fault = flt]

\* readfile(path) under every limit (SQLITE_LIMIT_LENGTH) up to the longest
\* content; for a directory, under every length its
\* stream may report; and with malloc or fread failing
ReadArgs(f) ==
    {RArgs(p, mx, 0, NoFault) : p \in Paths, mx \in 0..MaxLen}
    \cup {RArgs(p, MaxLen, dl, NoFault)
             : p \in {q \in Paths : IsDir(f, q)}, dl \in {1, MaxLen + 1}}
    \cup {RArgs(p, MaxLen, 0, Fault("malloc", 0, "ENOMEM")) : p \in Paths}
    \cup UNION {{RArgs(p, MaxLen, 0, Fault("fread", k, "EIO"))
                    : k \in 0..(Len(f[p].data) - 1)} : p \in Paths}

sqlite3_readfile ==
    /\ Idle
    /\ \E a \in ReadArgs(fs) :
         call' = Call("readfile", a,
                      readFileContents(fs, a.path, a.mxBlob, a.fault, a.dirLen),
                      0, <<>>, {}, last)
    /\ nCalls' = nCalls + 1
    /\ UNCHANGED <<fs, umask, last, thr>>

\* zName == 0
sqlite3_readfile_null ==
    /\ Idle
    /\ call' = Call("readfile", [NoArgs EXCEPT !.argc = 1, !.pathNull = TRUE],
                    NullResult, 0, <<>>, {}, last)
    /\ nCalls' = nCalls + 1
    /\ UNCHANGED <<fs, umask, last, thr>>

(***************************************************************************)
(* sqlite3_mkdir                                                           *)
(***************************************************************************)
MArgs(n, p, m, flt) == [NoArgs EXCEPT !.argc = n, !.path = p, !.perm = m, !.fault = flt]

\* mkdir(path), mkdir(path, perm), and the latter with chmod failing
MkdirArgs ==
    {MArgs(1, p, 0, NoFault) : p \in Paths}
    \cup {MArgs(2, p, m, NoFault) : p \in Paths, m \in MkdirPerms}
    \cup {MArgs(2, p, 448, Fault("chmod", 0, "EPERM")) : p \in Paths}

sqlite3_mkdir ==
    /\ Idle
    /\ \E a \in MkdirArgs :
       \E r \in {makeDirectory(fs, a.path, IF a.argc = 2 THEN a.perm ELSE 511,
                                umask, a.fault)} :
             /\ fs' = r.fs
             /\ call' = Call("mkdir", a,
                             IF r.ret # 0
                             THEN ErrorMsg("failed to create directory: %s", a.path)
                             ELSE NullResult,
                             r.ret, <<>>, {}, last)
    /\ nCalls' = nCalls + 1
    /\ UNCHANGED <<umask, last, thr>>

\* argc != 1 && argc != 2
sqlite3_mkdir_argc ==
    /\ Idle
    /\ call' = Call("mkdir", [NoArgs EXCEPT !.argc = 3],
                    ErrorMsg("wrong number of arguments to function mkdir()", <<>>),
                    0, <<>>, {}, last)
    /\ nCalls' = nCalls + 1
    /\ UNCHANGED <<fs, umask, last, thr>>

\* path == 0
sqlite3_mkdir_null ==
    /\ Idle
    /\ call' = Call("mkdir", [NoArgs EXCEPT !.argc = 1, !.pathNull = TRUE],
                    NullResult, 0, <<>>, {}, last)
    /\ nCalls' = nCalls + 1
    /\ UNCHANGED <<fs, umask, last, thr>>

(***************************************************************************)
(* sqlite3_symlink                                                         *)
(***************************************************************************)
sqlite3_symlink ==
    /\ Idle
    /\ \E src \in Targets, dstNull \in BOOLEAN :
       \E dst \in IF dstNull THEN {<<>>} ELSE Paths :
       \E r \in {createSymlink(fs, src, dstNull, dst)} :
         LET a == [NoArgs EXCEPT !.argc = 2, !.src = src, !.pathNull = dstNull,
                                 !.path = dst]
         IN  /\ fs' = r.fs
             /\ call' = Call("symlink", a,
                             IF r.ret # 0
                             THEN ErrorMsg("failed to create symlink to: %s", <<src>>)
                             ELSE NullResult,
                             r.ret, <<Step("symlink", r.err)>>, {}, last)
    /\ nCalls' = nCalls + 1
    /\ UNCHANGED <<umask, last, thr>>

\* argc != 2
sqlite3_symlink_argc ==
    /\ Idle
    /\ call' = Call("symlink", [NoArgs EXCEPT !.argc = 1],
                    ErrorMsg("wrong number of arguments to function symlink()", <<>>),
                    0, <<>>, {}, last)
    /\ nCalls' = nCalls + 1
    /\ UNCHANGED <<fs, umask, last, thr>>

\* src == 0
sqlite3_symlink_null ==
    /\ Idle
    /\ call' = Call("symlink", [NoArgs EXCEPT !.argc = 2, !.srcNull = TRUE],
                    NullResult, 0, <<>>, {}, last)
    /\ nCalls' = nCalls + 1
    /\ UNCHANGED <<fs, umask, last, thr>>

(***************************************************************************)
(* The host takes the result of the call; the context of its next call     *)
(* starts with no result.                                                  *)
(***************************************************************************)
Return ==
    /\ call.op # "none"
    /\ last' = Brief(call)
    /\ call' = NoCall
    /\ UNCHANGED <<fs, umask, nCalls, thr>>

\* no call in progress on another thread
NoThreads == <<>>

(***************************************************************************)
(* The specification: the calls a host makes, one after the other.         *)
(***************************************************************************)
Init ==
    /\ fs = EmptyFs
    /\ umask \in Umasks
    /\ call = NoCall
    /\ last = NoBrief
    /\ nCalls = 0
    /\ thr = NoThreads

Next ==
    \/ sqlite3_writefile
    \/ sqlite3_writefile_argc
    \/ sqlite3_writefile_null
    \/ sqlite3_readfile
    \/ sqlite3_readfile_null
    \/ sqlite3_mkdir
    \/ sqlite3_mkdir_argc
    \/ sqlite3_mkdir_null
    \/ sqlite3_symlink
    \/ sqlite3_symlink_argc
    \/ sqlite3_symlink_null
    \/ Return

Spec == Init /\ [][Next]_vars

(***************************************************************************)
(* sqlite3_lsmode.  The text is the sequence of its characters.            *)
(***************************************************************************)
\* "int m = (iMode >> ((2 - i) * 3))" and the three characters made of it
lsmode_triad(iMode, i) ==
    LET m == iMode \div (2 ^ ((2 - i) * 3))
    IN  <<IF HasBit(m, 4) THEN "r" ELSE "-",
          IF HasBit(m, 2) THEN "w" ELSE "-",
          IF HasBit(m, 1) THEN "x" ELSE "-">>

\* lsmode with "i * 3" for "(2 - i) * 3"
lsmode_shift(iMode) ==
    LET triad(i) ==
            LET m == iMode \div (2 ^ (i * 3))
            IN  <<IF HasBit(m, 4) THEN "r" ELSE "-",
                  IF HasBit(m, 2) THEN "w" ELSE "-",
                  IF HasBit(m, 1) THEN "x" ELSE "-">>
    IN  <<IF S_ISLNK(iMode) THEN "l"
          ELSE IF S_ISREG(iMode) THEN "-"
          ELSE IF S_ISDIR(iMode) THEN "d"
          ELSE "?">>
        \o triad(0) \o triad(1) \o triad(2)

lsmode(iMode) ==
    <<IF S_ISLNK(iMode) THEN "l"
      ELSE IF S_ISREG(iMode) THEN "-"
      ELSE IF S_ISDIR(iMode) THEN "d"
      ELSE "?">>
    \o lsmode_triad(iMode, 0) \o lsmode_triad(iMode, 1) \o lsmode_triad(iMode, 2)

\* the modes lsmode is called with: every file type of <sys/stat.h> and none,
\* with every permission; the set-id and sticky bits; negative and large values
FileTypes == {0, 4096, 8192, S_IFDIR, 24576, S_IFREG, S_IFLNK, 49152}
LsModes ==
    {t + q : t \in FileTypes, q \in 0..511}
    \cup {S_IFREG + 2048 + 493, S_IFDIR + 512 + 511, S_IFMT + 511}
    \cup {-1, -512, -32768, -2147483647, 2147483647, 65536 + S_IFDIR + 448}

sqlite3_lsmode ==
    /\ Idle
    /\ \E iMode \in LsModes :
         call' = Call("lsmode", [NoArgs EXCEPT !.argc = 1, !.mode = iMode],
                      TextResult(lsmode(iMode)), 0, <<>>, {}, last)
    /\ nCalls' = nCalls + 1
    /\ UNCHANGED <<fs, umask, last, thr>>

NextLs ==
    \/ sqlite3_lsmode
    \/ Return

SpecLs == Init /\ [][NextLs]_vars

(***************************************************************************)
(* Two threads of the host, each in one call of writefile(path, data) or   *)
(* writefile(path, data, perm).  A step of a thread is one system call of  *)
(* sqlite3_writefile, writeFile and makeParentDirectory on the path:       *)
(* fopen, then the rest of writeFile on the open stream, stat, mkdir.      *)
(* res, errno, i (here k, the prefix the loop is at) and sStat are the     *)
(* thread's own.                                                           *)
(***************************************************************************)
Threads == {1, 2}

\* the tree of the threads: every path of up to MaxDepth components
ParPaths == UNION {[1..n -> Names] : n \in 1..MaxDepth}
ParEmptyFs == [p \in ParPaths |-> Absent]
\* the trees the calls start in: nothing there, or /a there
ParTrees == {ParEmptyFs, [ParEmptyFs EXCEPT ![<<"a">>] = DirEntry(493)]}

\* p is a proper ancestor of q
IsAncestor(p, q) == Len(p) < Len(q) /\ Prefix(q, Len(p)) = p

\* the proper ancestors of p that are not in f
MissingIn(f, p) ==
    {Prefix(p, k) : k \in {j \in 1..(Len(p) - 1) : f[Prefix(p, j)].kind = "none"}}

\* a thread about to call writefile with n arguments
Thread(n, p, z, f) ==
    [pc |-> "fopen", argc |-> n, path |-> p, data |-> z, perm |-> IF n >= 3 THEN 420 ELSE 438,
     attempt |-> 1, k |-> 0, res |-> 0, errno |-> "OK", set |-> FALSE, nWrite |-> 0,
     result |-> NullResult, missing |-> MissingIn(f, p)]

\* the calls of the two threads: files in a directory below the root, neither
\* path an ancestor of the other
ParTargets == {x \in ParPaths : Len(x) >= 2}
ParCalls(f) ==
    {[t \in Threads |-> Thread(t + 1, pq[t], <<t>>, f)]
        : pq \in {x \in ParTargets \X ParTargets :
                     /\ x[1] # x[2]
                     /\ ~IsAncestor(x[1], x[2])
                     /\ ~IsAncestor(x[2], x[1])}}

\* the thread after makeParentDirectory's "i++": at the next prefix, or out of
\* the loop with SQLITE_OK and in the second writeFile
par_next(th) ==
    IF th.k + 1 >= Len(th.path)
    THEN [th EXCEPT !.pc = "fopen", !.attempt = 2, !.k = 0]
    ELSE [th EXCEPT !.pc = "stat", !.k = th.k + 1]

\* the thread after a writeFile that returned ret with errno e
par_returned(th, ret, e) ==
    IF th.attempt = 1 /\ writefile_retry([ret |-> ret, errno |-> e])
    THEN par_next([th EXCEPT !.res = ret, !.errno = e])
    ELSE [th EXCEPT !.res = ret, !.errno = e, !.pc = "end"]

\* FILE* out = fopen(zFile, "wb"); if (out == 0) return 1;
par_fopen ==
    \E t \in Threads :
      /\ thr # NoThreads
      /\ thr[t].pc = "fopen"
      /\ \E out \in {fopen_wb(fs, thr[t].path, umask)} :
           IF out.err # "OK"
           THEN /\ thr' = [thr EXCEPT ![t] = par_returned(thr[t], 1, out.err)]
                /\ fs' = fs
           ELSE /\ thr' = [thr EXCEPT ![t].pc = "write"]
                /\ fs' = out.fs
      /\ UNCHANGED <<umask, call, last, nCalls>>

\* the rest of writeFile: fwrite, fclose, chmod, sqlite3_result_int64
par_write ==
    \E t \in Threads :
      /\ thr # NoThreads
      /\ thr[t].pc = "write"
      /\ \E r \in {writeFile_opened(fs, thr[t].path, FALSE, thr[t].data, thr[t].perm,
                                    MtimeUnset, NoFault)} :
           /\ fs' = r.fs
           /\ thr' = [thr EXCEPT ![t] =
                        par_returned([thr[t] EXCEPT !.set = @ \/ r.set,
                                                    !.nWrite = r.nWrite],
                                     r.ret, r.errno)]
      /\ UNCHANGED <<umask, call, last, nCalls>>

\* rc2 = fileStat(zCopy, &sStat); if it is there, "if (!S_ISDIR(...)) rc =
\* SQLITE_ERROR"
par_stat ==
    \E t \in Threads :
      /\ thr # NoThreads
      /\ thr[t].pc = "stat"
      /\ \E sStat \in {fileStat(fs, Prefix(thr[t].path, thr[t].k))} :
           thr' = [thr EXCEPT ![t] =
                     IF sStat.err # "OK" THEN [thr[t] EXCEPT !.pc = "mkdir"]
                     ELSE IF ~S_ISDIR(sStat.mode) THEN [thr[t] EXCEPT !.pc = "end"]
                     ELSE par_next(thr[t])]
      /\ UNCHANGED <<fs, umask, call, last, nCalls>>

\* if (mkdir(zCopy, 0777)) rc = SQLITE_ERROR;
par_mkdir ==
    \E t \in Threads :
      /\ thr # NoThreads
      /\ thr[t].pc = "mkdir"
      /\ \E md \in {mkdir(fs, Prefix(thr[t].path, thr[t].k), 511, umask)} :
           IF md.err # "OK"
           THEN /\ thr' = [thr EXCEPT ![t].pc = "end", ![t].errno = md.err]
                /\ fs' = fs
           ELSE /\ thr' = [thr EXCEPT ![t] = par_next(thr[t])]
                /\ fs' = md.fs
      /\ UNCHANGED <<umask, call, last, nCalls>>

\* if (argc > 2 && res != 0) ctxErrorMsg(...); and the call returns
par_end ==
    \E t \in Threads :
      /\ thr # NoThreads
      /\ thr[t].pc = "end"
      /\ thr' = [thr EXCEPT ![t].pc = "done",
                            ![t].result =
                               IF thr[t].argc > 2 /\ thr[t].res # 0
                               THEN ErrorMsg("failed to write file: %s", thr[t].path)
                               ELSE IF thr[t].set THEN IntResult(thr[t].nWrite)
                               ELSE NullResult]
      /\ UNCHANGED <<fs, umask, call, last, nCalls>>

InitPar ==
    /\ fs \in ParTrees
    /\ umask \in Umasks
    /\ call = NoCall
    /\ last = NoBrief
    /\ nCalls = 0
    /\ thr \in ParCalls(fs)

NextPar ==
    \/ par_fopen
    \/ par_write
    \/ par_stat
    \/ par_mkdir
    \/ par_end

SpecPar == InitPar /\ [][NextPar]_vars

(***************************************************************************)
(* Properties.                                                             *)
(***************************************************************************)
\* the step is a call of op with its path argument given
CallStep(op) == call.op = "none" /\ call'.op = op /\ ~call'.args.pathNull
\* a writefile call that got as far as writing
Wrote(c) == c.op = "writefile" /\ ~c.args.pathNull /\ c.args.argc \in 2..4
\* the paths whose entry the step changes
Changed == {q \in Paths : fs'[q] # fs[q]}
\* the proper ancestors of p that do not exist in f
Missing(f, p) == {Prefix(p, k) : k \in {j \in 1..(Len(p) - 1) : ~Exists(f, Prefix(p, j))}}
\* every proper ancestor of p that exists in f is a directory the process may
\* search, and the process may write to the deepest of them
Creatable(f, p) ==
    LET there == {k \in 0..(Len(p) - 1) : Exists(f, Prefix(p, k))}
    IN  /\ \A k \in there : IsDir(f, Prefix(p, k)) /\ OwnerX(NodeAt(f, Prefix(p, k)))
        /\ \A k \in there : k - 1 \in there \/ k = 0
        /\ \E k \in there : /\ \A j \in there : j <= k
                            /\ OwnerW(NodeAt(f, Prefix(p, k)))
\* the bytes a writefile call was given
Content(a) == IF a.dataNull THEN <<>> ELSE a.data

\* C1: writefile(P, B) with two arguments on a path the process may write
\* (every ancestor of P a directory it may search, the parent writable, P not
\* there or a file it may write) returns Len(B) and leaves B in the file; and
\* a readfile(P) that is the next call after a writefile(P, B) that returned
\* its count, with Len(B) within the limit, returns a blob equal to B, the
\* count having been Len(B).
RoundTripWrite ==
    (/\ CallStep("writefile")
     /\ call'.args.argc = 2
     /\ call'.args.fault = NoFault
     /\ Missing(fs, call'.args.path) = {}
     /\ Creatable(fs, call'.args.path)
     /\ \/ ~Exists(fs, call'.args.path)
        \/ IsFile(fs, call'.args.path) /\ OwnerW(fs[call'.args.path]))
    => /\ call'.result = IntResult(Len(Content(call'.args)))
       /\ IsFile(fs', call'.args.path)
       /\ fs'[call'.args.path].data = Content(call'.args)
RoundTripRead ==
    (/\ call.op = "readfile"
     /\ ~call.args.pathNull
     /\ call.after.op = "writefile"
     /\ call.after.argc = 2
     /\ call.after.path = call.args.path
     /\ Len(call.after.data) <= call.args.mxBlob
     /\ call.args.fault = NoFault)
    => /\ call.after.n = Len(call.after.data)
       /\ call.result = BlobResult(call.after.data)
RoundTrip == [][RoundTripWrite]_vars /\ []RoundTripRead

\* a byte written by writefile(P, B) is read back by the next call
RoundTripWitness ==
    /\ call.op = "readfile"
    /\ call.after.op = "writefile"
    /\ call.after.argc = 2
    /\ call.after.path = call.args.path
    /\ call.after.n = MaxLen
    /\ call.result.t = "blob"
    /\ Len(call.result.b) = MaxLen

\* C2 (as the code has it): a writefile call whose write fails ends with the
\* error "failed to write file: <path>" when it has 3 or 4 arguments, and
\* with a null result and no error when it has 2.
WriteFailureReported ==
    (Wrote(call) /\ call.res # 0)
    => IF call.args.argc > 2
       THEN call.result = ErrorMsg("failed to write file: %s", call.args.path)
       ELSE call.result = NullResult

\* a short write with two arguments ends without a result
WriteFailureWitness ==
    /\ Wrote(call)
    /\ call.args.argc = 2
    /\ call.res = 2
    /\ call.result = NullResult
    /\ \E i \in DOMAIN call.steps :
         call.steps[i].name = "fwrite" /\ call.steps[i].err # "OK"

\* C2 as stated: a writefile call whose write fails ends with an error
\* result, with 2, 3 or 4 arguments.
WriteFailureAlwaysError ==
    (Wrote(call) /\ call.res # 0) => call.result.t = "error"

\* C3 as stated: symlink(target, linkpath) with a target ends with an error
\* when symlink(2) fails, and with null and no error only when the link was
\* made.
SymlinkFailureReported ==
    (call.op = "symlink" /\ call.args.argc = 2 /\ ~call.args.srcNull)
    => IF call.steps[1].err # "OK"
       THEN call.result.t = "error"
       ELSE call.result = NullResult /\ fs[call.args.path] = LinkEntry(call.args.src)

\* C4: writefile on a path with missing ancestors, the ancestors there being
\* directories the process may search and the deepest of them writable,
\* succeeds: it returns the byte count, the entries it changes are the
\* missing ancestors, now directories, and the target, now a file of the
\* given bytes; every other entry is as it was.
ParentsCreated ==
    (/\ CallStep("writefile")
     /\ call'.args.argc \in 2..4
     /\ call'.args.fault = NoFault
     /\ Missing(fs, call'.args.path) # {}
     /\ Creatable(fs, call'.args.path))
    => /\ call'.res = 0
       /\ call'.result = IntResult(Len(Content(call'.args)))
       /\ Changed = Missing(fs, call'.args.path) \cup {call'.args.path}
       /\ call'.made = Missing(fs, call'.args.path)
       /\ \A q \in Missing(fs, call'.args.path) : IsDir(fs', q)
       /\ IsFile(fs', call'.args.path)
       /\ fs'[call'.args.path].data = Content(call'.args)
ParentsCreatedAlways == [][ParentsCreated]_vars

\* both ancestors of /a/a/a are made next to an entry /b that stays
ParentsCreatedWitness ==
    /\ Wrote(call)
    /\ call.res = 0
    /\ Len(call.args.path) = 3
    /\ Cardinality(call.made) = 2
    /\ \A q \in call.made : IsDir(fs, q)
    /\ IsFile(fs, call.args.path)
    /\ Exists(fs, <<"b">>)

\* C5 (as the code has it): after a successful writefile the file exists, its
\* length is that of the content (0 for null) and, when a permission
\* argument other than 0 was given, its permission bits are the argument
\* masked to 0777; with the argument 0 they are what they were, for a new
\* file 0666 less the umask.
AfterWrite ==
    (Wrote(call) /\ call.res = 0)
    => /\ IsFile(fs, call.args.path)
       /\ Len(fs[call.args.path].data) = Len(Content(call.args))
       /\ (call.args.argc >= 3 /\ call.args.perm # 0)
          => Perm9(fs[call.args.path].perm) = Perm9(call.args.perm)
       /\ (call.args.argc >= 3 /\ call.args.perm = 0)
          => fs[call.args.path].perm = IF call.pre.kind = "file" THEN call.pre.perm
                                       ELSE AndNot(438, umask)

\* a new file is left with the permission 0200 it was written with
AfterWriteWitness ==
    /\ Wrote(call)
    /\ call.res = 0
    /\ call.args.argc = 3
    /\ call.args.perm = 128
    /\ call.pre.kind = "none"
    /\ fs[call.args.path].perm = 128

\* C5 as stated: the same for every permission argument, 0 too.
AfterWriteAnyPerm ==
    (Wrote(call) /\ call.res = 0)
    => /\ IsFile(fs, call.args.path)
       /\ Len(fs[call.args.path].data) = Len(Content(call.args))
       /\ call.args.argc >= 3
          => Perm9(fs[call.args.path].perm) = Perm9(call.args.perm)

\* C6: mkdir(path, mode) on a path that exists succeeds exactly when the
\* entry is a directory whose permission bits are mode & 0777 already or are
\* made so by a chmod that succeeds; it then leaves the directory with those
\* bits, and otherwise ends with an error and changes nothing.
MkdirMode(a) == IF a.argc = 2 THEN a.perm ELSE 511
MkdirExisting ==
    (/\ CallStep("mkdir")
     /\ call'.args.argc \in 1..2
     /\ AncErr(fs, call'.args.path) = "OK"
     /\ Exists(fs, call'.args.path))
    => /\ call'.res = 0
          <=> /\ IsDir(fs, call'.args.path)
              /\ \/ fs[call'.args.path].perm % 512 = MkdirMode(call'.args) % 512
                 \/ call'.args.fault.kind # "chmod"
       /\ call'.res = 0
          => /\ call'.result = NullResult
             /\ IsDir(fs', call'.args.path)
             /\ fs'[call'.args.path].perm % 512 = MkdirMode(call'.args) % 512
             /\ Changed \subseteq {call'.args.path}
       /\ call'.res # 0
          => /\ call'.result = ErrorMsg("failed to create directory: %s", call'.args.path)
             /\ fs' = fs
MkdirExistingAlways == [][MkdirExisting]_vars

\* mkdir succeeds on a directory whose permission it changes
MkdirExistingWitness ==
    /\ call.op = "mkdir"
    /\ call.res = 0
    /\ call.pre.kind = "dir"
    /\ call.pre.perm # fs[call.args.path].perm
    /\ fs[call.args.path].perm = call.args.perm

\* C7: readfile changes nothing in the filesystem, and on a path that is not
\* there or cannot be opened (an ancestor missing, not a directory or not
\* searchable, a link to nowhere, no read permission) its result is null,
\* under every limit.
CannotOpen(f, p) ==
    \/ \E k \in 0..(Len(p) - 1) :
          ~IsDir(f, Prefix(p, k)) \/ ~HasBit(NodeAt(f, Prefix(p, k)).perm, 64)
    \/ f[p].kind \in {"none", "link"}
    \/ ~HasBit(f[p].perm, 256)
ReadMissing ==
    (call.op = "none" /\ call'.op = "readfile")
    => /\ fs' = fs
       /\ (~call'.args.pathNull /\ CannotOpen(fs, call'.args.path))
          => call'.result = NullResult
ReadMissingAlways == [][ReadMissing]_vars

\* a path that is not there reads as null under the limit 0
ReadMissingWitness ==
    /\ call.op = "readfile"
    /\ ~call.args.pathNull
    /\ call.pre.kind = "none"
    /\ call.args.mxBlob = 0
    /\ call.result = NullResult

\* what the call's readfile opened: a file the process may read
ReadsFile(c) ==
    /\ c.op = "readfile"
    /\ ~c.args.pathNull
    /\ c.pre.kind = "file"
    /\ ~CannotOpen(fs, c.args.path)

\* C8 (as the code has it): for a file readfile can open, the result is the
\* TooBig error when the length is over the limit; else the NoMem error when
\* the buffer cannot be allocated; else the IOError when fewer bytes are read
\* than the length; else a blob of exactly the file's bytes.
ReadWhole ==
    ReadsFile(call)
    => IF Len(call.pre.data) > call.args.mxBlob
           THEN call.result = ErrorCode("SQLITE_TOOBIG")
       ELSE IF call.args.fault.kind = "malloc"
           THEN call.result = ErrorCode("SQLITE_NOMEM")
       ELSE IF call.args.fault.kind = "fread" /\ call.args.fault.n < Len(call.pre.data)
           THEN call.result = ErrorCode("SQLITE_IOERR")
       ELSE call.result = BlobResult(call.pre.data)

\* a file that writefile has just written is too big to read
ReadWholeWitness ==
    /\ ReadsFile(call)
    /\ call.after.op = "writefile"
    /\ call.after.path = call.args.path
    /\ call.after.n > call.args.mxBlob
    /\ call.result = ErrorCode("SQLITE_TOOBIG")

\* C8 as stated: TooBig when the length is over the limit, IOError when fewer
\* bytes are read than the length, and otherwise a blob of exactly the file's
\* bytes.
ReadWholeThreeWays ==
    ReadsFile(call)
    => IF Len(call.pre.data) > call.args.mxBlob
           THEN call.result = ErrorCode("SQLITE_TOOBIG")
       ELSE IF call.args.fault.kind = "fread" /\ call.args.fault.n < Len(call.pre.data)
           THEN call.result = ErrorCode("SQLITE_IOERR")
       ELSE call.result = BlobResult(call.pre.data)

\* C9: lsmode(mode) is a text of 10 characters: the first is l, - or d for
\* the type bits of a symbolic link, a regular file or a directory and ?
\* for any other, the next nine are r, w, x for the bits 0400 down to 0001
\* that are set and - for those that are not; 0100777 gives -rwxrwxrwx and
\* 0040000 gives d---------.
ModeBit(mode, k) == (mode \div (2 ^ k)) % 2 = 1
ModeText ==
    call.op = "lsmode"
    => LET mode == call.args.mode
           type == (mode \div 4096) % 16
           z    == call.result.b
       IN  /\ call.result.t = "text"
           /\ Len(z) = 10
           /\ z[1] = (CASE type = 10 -> "l" [] type = 8 -> "-" [] type = 4 -> "d"
                        [] OTHER -> "?")
           /\ \A j \in 0..8 :
                z[j + 2] = IF ModeBit(mode, 8 - j)
                           THEN <<"r", "w", "x">>[(j % 3) + 1] ELSE "-"
           /\ mode = 33279
              => z = <<"-", "r", "w", "x", "r", "w", "x", "r", "w", "x">>
           /\ mode = 16384
              => z = <<"d", "-", "-", "-", "-", "-", "-", "-", "-", "-">>

\* lsmode(0100750) is -rwxr-x---
ModeTextWitness ==
    /\ call.op = "lsmode"
    /\ call.args.mode = 33256
    /\ call.result.b = <<"-", "r", "w", "x", "r", "-", "x", "-", "-", "-">>

\* C10 as stated: in one writefile call makeParentDirectory runs at most
\* once, and only straight after a first fopen that failed with ENOENT;
\* fopen runs at most twice, the second time only after makeParentDirectory
\* returned SQLITE_OK; after a short write, a failed chmod or a failed
\* utimes neither runs.
StepsNamed(c, name) == {i \in DOMAIN c.steps : c.steps[i].name = name}
BuilderOnce ==
    call.op = "writefile"
    => /\ Cardinality(StepsNamed(call, "makeParentDirectory")) <= 1
       /\ Cardinality(StepsNamed(call, "fopen")) <= 2
       /\ StepsNamed(call, "makeParentDirectory") # {}
          => /\ call.steps[1] = Step("fopen", "ENOENT")
             /\ StepsNamed(call, "makeParentDirectory") = {2}
       /\ Cardinality(StepsNamed(call, "fopen")) = 2
          => /\ call.steps[2] = Step("makeParentDirectory", "SQLITE_OK")
             /\ StepsNamed(call, "fopen") = {1, 3}
       /\ \A i \in DOMAIN call.steps :
            (call.steps[i].name \in {"fwrite", "chmod", "utimes"}
             /\ call.steps[i].err # "OK")
            => \A j \in DOMAIN call.steps :
                 j > i => call.steps[j].name \notin {"makeParentDirectory", "fopen"}

\* C11 as stated: when two threads call writefile on different files whose
\* paths share ancestors that are missing, then however their stat, mkdir
\* and fopen steps interleave, once both have returned each has its byte
\* count as result, each file is there with all its bytes and every shared
\* ancestor is a directory.
BothWritesSucceed ==
    (/\ thr # NoThreads
     /\ \A t \in Threads : thr[t].pc = "done"
     /\ thr[1].missing \cap thr[2].missing # {})
    => /\ \A t \in Threads :
            /\ thr[t].res = 0
            /\ thr[t].result = IntResult(Len(thr[t].data))
            /\ fs[thr[t].path].kind = "file"
            /\ fs[thr[t].path].data = thr[t].data
       /\ \A q \in thr[1].missing \cap thr[2].missing : fs[q].kind = "dir"

=============================================================================
